---- MODULE Spec2Model ----
(***************************************************************************)
(* A model of backcountry-map-tools: the raster pipeline of                *)
(* lib/dem_utils.py (tile enumeration, cached tile download, mosaic and    *)
(* clip), the vector pipeline of lib/gpkg_utils.py (quadrangle             *)
(* normalisation, de-duplication, download and extraction) and the two     *)
(* helpers of lib/download_utils.py they share.                            *)
(*                                                                         *)
(* Coordinates are fixed-point: an integer n stands for n / Scale degrees. *)
(* Text the code takes apart (index fields, archive member names) is a     *)
(* sequence of one-character strings; text the code only puts together     *)
(* (tile keys, paths) is a string.                                         *)
(***************************************************************************)
EXTENDS Integers, Sequences, FiniteSets, TLC

VARIABLES
    bbox,          \* BoundingBox of the current job, fixed-point
    tiles,         \* fetch_and_clip_dem: tiles = tiles_for_bbox(bbox)
    tile_paths,    \* the paths download_tile returned, the argument of merge_and_clip
    dem_pc,        \* position of the raster job
    dem_result,    \* what the last raster operation returned or raised
    dem_op,        \* the raster operation running, or the last one that ran
    dirs,          \* directories that exist
    fs,            \* the files that exist: path -> content
    fetches,       \* download_file calls of the current operation: <<url, path>>
    tools_run,     \* GDAL commands run by the current operation, oldest first
    last_call,     \* the most recent download_tile call
    prev_call,     \* the download_tile call before last_call
    index,         \* the map index at gdb_path: what opening and reading it gives
    download_format,       \* USGSTopoDownloader.download_format, as characters
    gq_pc,                 \* position of download_by_bbox
    processed_quads,       \* download_by_bbox: the dedup set
    features_found,        \* download_by_bbox: records taken from the layer
    downloads_successful,  \* download_by_bbox: _process_quad calls that returned True
    summary,               \* what download_by_bbox returned
    quad_log               \* what each loop turn of the run did, oldest first

\* ------------------------------------------------------------------
\* Bounds of the model
\* ------------------------------------------------------------------

\* Fixed-point resolution: Scale steps per degree.
Scale == 2

\* Corners of a box lie at most MaxSpan steps from its origin.
MaxSpan == 2

\* Corners of a raster job's box lie at most DemSpan steps from its origin.
DemSpan == 1

\* The spatial filter returns at most MaxRecords records.
MaxRecords == 2

\* Origins (whole degrees) around which boxes are drawn: both hemispheres,
\* and absolute values of one, two and three digits.
LonOrigins == {-103, -10, 0, 99}
LatOrigins == {-10, 0, 42}

Offsets == (0 - MaxSpan)..MaxSpan

BoundingBox(xmin, ymin, xmax, ymax) ==
    [xmin |-> xmin, ymin |-> ymin, xmax |-> xmax, ymax |-> ymax]

Boxes(lonOrigins, latOrigins) ==
    { BoundingBox(ox * Scale + a, oy * Scale + c, ox * Scale + b, oy * Scale + d) :
        ox \in lonOrigins, oy \in latOrigins,
        a \in Offsets, b \in Offsets, c \in Offsets, d \in Offsets }

\* ------------------------------------------------------------------
\* Tile naming and enumeration (lib/dem_utils.py)
\* ------------------------------------------------------------------

abs(n) == IF n >= 0 THEN n ELSE 0 - n

\* math.floor of the fixed-point value n
floor(n) == n \div Scale

RECURSIVE Zeros(_)
Zeros(k) == IF k <= 0 THEN "" ELSE "0" \o Zeros(k - 1)

\* format(n, "0<width>d") for n >= 0: at least width digits, zero-padded
ZeroPad(n, width) == Zeros(width - Len(ToString(n))) \o ToString(n)

\* tile_name with the longitude formatted 02d instead of 03d.
tile_name_lon_02d(lat, lon) ==
    LET lat_prefix == IF lat >= 0 THEN "n" ELSE "s"
        lon_prefix == IF lon >= 0 THEN "e" ELSE "w"
    IN  lat_prefix \o ZeroPad(abs(lat), 2) \o lon_prefix \o ZeroPad(abs(lon), 2)

tile_name(lat, lon) ==
    LET lat_prefix == IF lat >= 0 THEN "n" ELSE "s"
        lon_prefix == IF lon >= 0 THEN "e" ELSE "w"
    IN  lat_prefix \o ZeroPad(abs(lat), 2) \o lon_prefix \o ZeroPad(abs(lon), 3)

\* for lon in range(lon, lon_stop): tiles.append(tile_name(lat, lon))
RECURSIVE LonLoop(_, _, _, _)
LonLoop(acc, lat, lon, lon_stop) ==
    IF lon >= lon_stop THEN acc
    ELSE LonLoop(Append(acc, tile_name(lat, lon)), lat, lon + 1, lon_stop)

\* for lat in range(lat, lat_stop): the inner loop from lon_start
RECURSIVE LatLoop(_, _, _, _, _)
LatLoop(acc, lat, lat_stop, lon_start, lon_stop) ==
    IF lat >= lat_stop THEN acc
    ELSE LatLoop(LonLoop(acc, lat, lon_start, lon_stop),
                 lat + 1, lat_stop, lon_start, lon_stop)

tiles_for_bbox_open_range(b) ==
    LatLoop(<<>>, floor(b.ymin), floor(b.ymax), floor(b.xmin), floor(b.xmax))

\* The enumeration with the two loops exchanged: longitude outer, latitude
\* inner.
tiles_for_bbox_lon_outer(b) ==
    LET columns == floor(b.xmax) - floor(b.xmin) + 1
        rows    == floor(b.ymax) - floor(b.ymin) + 1
    IN  IF columns <= 0 \/ rows <= 0 THEN <<>>
        ELSE [i \in 1..(columns * rows) |->
                 tile_name(floor(b.ymin) + ((i - 1) % rows),
                           floor(b.xmin) + ((i - 1) \div rows))]

tiles_for_bbox(b) ==
    LET lon_start == floor(b.xmin)
        lon_end   == floor(b.xmax)
        lat_start == floor(b.ymin)
        lat_end   == floor(b.ymax)
    IN  LatLoop(<<>>, lat_start, lat_end + 1, lon_start, lon_end + 1)

\* ------------------------------------------------------------------
\* Text as characters
\* ------------------------------------------------------------------

LowerCase == <<"a", "b", "c", "d", "e", "f", "g", "h", "i", "j", "k", "l", "m",
               "n", "o", "p", "q", "r", "s", "t", "u", "v", "w", "x", "y", "z">>
UpperCase == <<"A", "B", "C", "D", "E", "F", "G", "H", "I", "J", "K", "L", "M",
               "N", "O", "P", "Q", "R", "S", "T", "U", "V", "W", "X", "Y", "Z">>

Whitespace == {" ", "\t"}

upper_char(c) ==
    IF \E i \in 1..Len(LowerCase) : LowerCase[i] = c
    THEN UpperCase[CHOOSE i \in 1..Len(LowerCase) : LowerCase[i] = c]
    ELSE c

lower_char(c) ==
    IF \E i \in 1..Len(UpperCase) : UpperCase[i] = c
    THEN LowerCase[CHOOSE i \in 1..Len(UpperCase) : UpperCase[i] = c]
    ELSE c

\* str.upper(), str.lower()
upper(text) == [i \in 1..Len(text) |-> upper_char(text[i])]
lower(text) == [i \in 1..Len(text) |-> lower_char(text[i])]

\* str.strip()
RECURSIVE lstrip(_)
lstrip(text) ==
    IF text # <<>> /\ Head(text) \in Whitespace THEN lstrip(Tail(text)) ELSE text

RECURSIVE rstrip(_)
rstrip(text) ==
    IF text # <<>> /\ text[Len(text)] \in Whitespace
    THEN rstrip(SubSeq(text, 1, Len(text) - 1))
    ELSE text

strip(text) == rstrip(lstrip(text))

\* str.split(sep)[0]
RECURSIVE first_token(_, _)
first_token(text, sep) ==
    IF text = <<>> \/ Head(text) = sep THEN <<>>
    ELSE <<Head(text)>> \o first_token(Tail(text), sep)

\* str.replace(old, new) for single characters
replace(text, old, new) == [i \in 1..Len(text) |-> IF text[i] = old THEN new ELSE text[i]]

\* The characters put together as one string.
RECURSIVE Str(_)
Str(text) == IF text = <<>> THEN "" ELSE Head(text) \o Str(Tail(text))

\* ------------------------------------------------------------------
\* Files and paths
\* ------------------------------------------------------------------

\* os.path.join(dir, stem + ext); os.path.dirname and os.path.splitext read
\* the fields back.
Path(dir, stem, ext) == [dir |-> dir, stem |-> stem, ext |-> ext]

exists(files, p) == p \in DOMAIN files

\* open(p, "wb") ... write ... close
WriteFile(files, p, content) ==
    [q \in DOMAIN files \cup {p} |-> IF q = p THEN content ELSE files[q]]

\* os.remove(p)
RemoveFile(files, p) == [q \in DOMAIN files \ {p} |-> files[q]]

\* The content of a file: what kind of data it holds and, for an archive,
\* its members.
File(kind) == [kind |-> kind, members |-> <<>>]

NoFiles == [q \in {} |-> File("none")]

\* What is left of a response body whose transfer broke.
Truncated == File("truncated")

\* ------------------------------------------------------------------
\* download_file (lib/download_utils.py)
\* ------------------------------------------------------------------

\* What the server and the network do to one request.
FetchOutcomes == {"ok", "connect_error", "http_error", "zero_length", "broken_body"}

\* The result of download_file(url, local_filepath) when the request goes
\* as `outcome` and the server's body is `body`: the pair it returns and the
\* files and directories it leaves.
download_file(local_filepath, outcome, body, files, directories) ==
    LET made == directories \cup {local_filepath.dir}   \* os.makedirs(dirname)
    IN  CASE outcome = "ok" ->
               \* every chunk written, file closed
               [success |-> TRUE, fs |-> WriteFile(files, local_filepath, body), dirs |-> made]
          [] outcome = "broken_body" ->
               \* open(local_filepath, "wb") truncated the file, iter_content
               \* raised a RequestException after some chunks
               [success |-> FALSE, fs |-> WriteFile(files, local_filepath, Truncated),
                dirs |-> made]
          [] OTHER ->
               \* requests.get raised, raise_for_status raised, or
               \* content-length is 0: the file is never opened
               [success |-> FALSE, fs |-> files, dirs |-> made]

\* ------------------------------------------------------------------
\* download_tile (lib/dem_utils.py)
\* ------------------------------------------------------------------

USGS_BASE == "https://prd-tnm.s3.amazonaws.com/StagedProducts/Elevation/1/TIFF/current"

DEFAULT_CACHE_DIR == "../data/extracted/dem"
DEFAULT_OUT_DIR == "../data/out"

tile_url(tile_key) == USGS_BASE \o "/" \o tile_key \o "/USGS_1_" \o tile_key \o ".tif"

\* The body the server holds for a tile.
TileBody == File("tif")

NoCall == [key |-> "", result |-> "none", path |-> Path("", "", ""), fetched |-> FALSE]

\* The result of download_tile(tile_key, cache_dir): what it returns or
\* raises, whether it called download_file, and the files it leaves.
download_tile_always_fetch(tile_key, cache_dir, outcome, files, directories) ==
    LET out_path == Path(cache_dir, tile_key, ".tif")
        made     == directories \cup {cache_dir}
        got      == download_file(out_path, outcome, TileBody, files, made)
    IN  [result |-> IF got.success THEN "returned" ELSE "raised",
         path |-> out_path, fetched |-> TRUE, fs |-> got.fs, dirs |-> got.dirs]

\* download_tile that takes a file for a cache hit only if it holds a whole
\* tile, and fetches again over anything else.
download_tile_checks_content(tile_key, cache_dir, outcome, files, directories) ==
    LET out_path == Path(cache_dir, tile_key, ".tif")
        made     == directories \cup {cache_dir}
        got      == download_file(out_path, outcome, TileBody, files, made)
    IN  IF exists(files, out_path) /\ files[out_path] = TileBody
        THEN [result |-> "returned", path |-> out_path, fetched |-> FALSE,
              fs |-> files, dirs |-> made]
        ELSE [result |-> IF got.success THEN "returned" ELSE "raised",
              path |-> out_path, fetched |-> TRUE, fs |-> got.fs, dirs |-> got.dirs]

download_tile(tile_key, cache_dir, outcome, files, directories) ==
    LET out_path == Path(cache_dir, tile_key, ".tif")
        made     == directories \cup {cache_dir}        \* os.makedirs(cache_dir)
        got      == download_file(out_path, outcome, TileBody, files, made)
    IN  IF exists(files, out_path)
        THEN [result |-> "returned", path |-> out_path, fetched |-> FALSE,
              fs |-> files, dirs |-> made]
        ELSE [result |-> IF got.success THEN "returned" ELSE "raised",
              path |-> out_path, fetched |-> TRUE, fs |-> got.fs, dirs |-> got.dirs]

\* The record of a download_tile call kept in last_call.
CallRecord(tile_key, r) ==
    [key |-> tile_key, result |-> r.result, path |-> r.path, fetched |-> r.fetched]

FetchesOf(tile_key, r) ==
    IF r.fetched THEN <<[url |-> tile_url(tile_key), path |-> r.path]>> ELSE <<>>

\* ------------------------------------------------------------------
\* merge_and_clip (lib/dem_utils.py)
\* ------------------------------------------------------------------

\* Digits Python prints after the point of a float at most.
FracDigits == 16

\* The decimal digits of rem / Scale, by long division, without trailing zeros.
RECURSIVE FracStr(_, _)
FracStr(rem, left) ==
    IF rem = 0 \/ left = 0 THEN ""
    ELSE ToString((rem * 10) \div Scale) \o FracStr((rem * 10) % Scale, left - 1)

\* str(x) of the float x = n / Scale
FloatStr(n) ==
    LET whole == abs(n) \div Scale
        rem   == abs(n) % Scale
    IN  (IF n < 0 THEN "-" ELSE "") \o ToString(whole) \o "."
            \o (IF rem = 0 THEN "0" ELSE FracStr(rem, FracDigits))

\* The name with the two longitudes first, then the two latitudes.
OutName_lon_first(b) ==
    "DEM_" \o FloatStr(b.xmin) \o "_" \o FloatStr(b.xmax) \o "_"
           \o FloatStr(b.ymin) \o "_" \o FloatStr(b.ymax)

\* f"DEM_{bbox.xmin}_{bbox.ymin}_{bbox.xmax}_{bbox.ymax}"
OutName(b) ==
    "DEM_" \o FloatStr(b.xmin) \o "_" \o FloatStr(b.ymin) \o "_"
           \o FloatStr(b.xmax) \o "_" \o FloatStr(b.ymax)

\* How one GDAL command ends: exit status 0, or non-zero (check=True raises).
ToolOutcomes == {"ok", "fail"}

\* gdalbuildvrt with no source file writes nothing and exits non-zero.
BuildOutcome(tile_list, build) == IF tile_list = <<>> THEN "fail" ELSE build

\* The result of merge_and_clip(tile_list, bbox, out_dir) when gdalbuildvrt
\* ends as `build` and gdalwarp as `warp`.
merge_and_clip(tile_list, b, out_dir, build, warp, files, directories) ==
    LET vrt_path == Path(out_dir, "_tmp_mosaic", ".vrt")
        out_path == Path(out_dir, OutName(b), ".tif")
        made     == directories \cup {out_dir}          \* os.makedirs(out_dir)
        mosaic   == WriteFile(files, vrt_path, File("vrt"))   \* gdalbuildvrt wrote the VRT
        clipped  == WriteFile(mosaic, out_path, File("dem"))  \* gdalwarp wrote the output
    IN  IF BuildOutcome(tile_list, build) = "fail"
        THEN \* CalledProcessError leaves the function at line 115
             [result |-> "raised", path |-> out_path, fs |-> files,
              dirs |-> made, tools |-> <<"gdalbuildvrt">>]
        ELSE IF warp = "fail"
        THEN \* CalledProcessError leaves the function at line 121
             [result |-> "raised", path |-> out_path, fs |-> mosaic,
              dirs |-> made, tools |-> <<"gdalbuildvrt", "gdalwarp">>]
        ELSE [result |-> "returned", path |-> out_path,
              fs |-> IF exists(clipped, vrt_path) THEN RemoveFile(clipped, vrt_path)
                     ELSE clipped,
              dirs |-> made, tools |-> <<"gdalbuildvrt", "gdalwarp">>]

\* ------------------------------------------------------------------
\* Results of the raster operations
\* ------------------------------------------------------------------

NoResult == [kind |-> "none"]
ReturnedNone == [kind |-> "None"]
ReturnedPath(p) == [kind |-> "path", path |-> p]
Raised(error) == [kind |-> "raised", error |-> error]

ResultOfTile(r) ==
    IF r.result = "returned" THEN ReturnedPath(r.path) ELSE Raised("RuntimeError")

ResultOfMerge(r) ==
    IF r.result = "returned" THEN ReturnedPath(r.path) ELSE Raised("CalledProcessError")

\* The cache and output directories the raster operations are given.
CacheDir == DEFAULT_CACHE_DIR
OutDir == DEFAULT_OUT_DIR

\* Boxes of the raster jobs: one or two rows of tiles, up to two columns,
\* and boxes with xmin > xmax.
DemOffsets == (0 - DemSpan)..DemSpan
DemBoxes ==
    { BoundingBox((0 - 103) * Scale + a, 42 * Scale, (0 - 103) * Scale + b, 42 * Scale + d) :
        a \in DemOffsets, b \in DemOffsets, d \in {0, Scale} }

\* The paths of the first n keys.
PathsOf(keys, n) == [i \in 1..n |-> Path(CacheDir, keys[i], ".tif")]

\* ------------------------------------------------------------------
\* extract_zip_and_rename (lib/download_utils.py)
\* ------------------------------------------------------------------

\* An archive member: its internal directories, its base name in two parts,
\* and whether zipfile can decode it (False: extract raises an error that is
\* not BadZipFile, such as an unsupported compression method).
Member(inner, stem, ext, readable) ==
    [inner |-> inner, stem |-> stem, ext |-> ext, readable |-> readable]

\* A file zipfile refuses to open (BadZipFile), and one it opens.
CorruptZip == File("corrupt zip")
Zip(members) == [kind |-> "zip", members |-> members]

\* for f_info in zip_ref.infolist(): if f_info.filename.endswith(ext): break
RECURSIVE first_member(_, _)
first_member(members, file_extension) ==
    IF members = <<>> THEN <<>>
    ELSE IF Head(members).ext = file_extension THEN <<Head(members)>>
    ELSE first_member(Tail(members), file_extension)

\* shutil.move(src, dst)
MoveFile(files, src, dst) == RemoveFile(WriteFile(files, dst, files[src]), src)

\* The directories zip_ref.extract would create for a member extracted under
\* its internal path.
RECURSIVE InnerDirs(_, _)
InnerDirs(base, inner) ==
    IF inner = <<>> THEN {}
    ELSE {base \o "/" \o Head(inner)} \cup InnerDirs(base \o "/" \o Head(inner), Tail(inner))

\* Extraction with the member's filename left as it is in the archive: the
\* member is unpacked under its internal directories and moved from there.
extract_zip_and_rename_keep_inner(zip_path, extract_dir, file_extension, files, directories) ==
    LET target_path == Path(extract_dir, zip_path.stem, file_extension)
        made        == directories \cup {extract_dir}
        archive     == files[zip_path]
        found       == first_member(archive.members, file_extension)
        inner       == InnerDirs(extract_dir, found[1].inner)
        renamed     == WriteFile(files, target_path, File("layers"))
    IN  IF archive.kind # "zip"
        THEN [success |-> FALSE, path |-> target_path,
              fs |-> RemoveFile(files, zip_path), dirs |-> made]
        ELSE IF found = <<>>
        THEN [success |-> FALSE, path |-> target_path, fs |-> files, dirs |-> made]
        ELSE IF ~found[1].readable
        THEN [success |-> FALSE, path |-> target_path, fs |-> files, dirs |-> made]
        ELSE [success |-> TRUE, path |-> target_path,
              fs |-> RemoveFile(renamed, zip_path), dirs |-> made \cup inner]

\* The result of extract_zip_and_rename(zip_path, extract_dir, file_extension)
\* on an existing archive: the pair it returns and the files it leaves.
extract_zip_and_rename(zip_path, extract_dir, file_extension, files, directories) ==
    LET \* splitext(basename(zip_path))[0] + file_extension, joined to extract_dir
        target_path == Path(extract_dir, zip_path.stem, file_extension)
        made        == directories \cup {extract_dir}    \* os.makedirs(extract_dir)
        archive     == files[zip_path]
        found       == first_member(archive.members, file_extension)
        \* the member's filename is cut to its basename before zip_ref.extract
        extracted   == Path(extract_dir, found[1].stem, found[1].ext)
        unpacked    == WriteFile(files, extracted, File("layers"))
        renamed     == IF extracted # target_path
                       THEN MoveFile(unpacked, extracted, target_path) ELSE unpacked
    IN  IF archive.kind # "zip"
        THEN \* except zipfile.BadZipFile: os.remove(zip_path)
             [success |-> FALSE, path |-> target_path,
              fs |-> RemoveFile(files, zip_path), dirs |-> made]
        ELSE IF found = <<>>
        THEN \* return False inside the with block, line 80
             [success |-> FALSE, path |-> target_path, fs |-> files, dirs |-> made]
        ELSE IF ~found[1].readable
        THEN \* except Exception, line 105
             [success |-> FALSE, path |-> target_path, fs |-> files, dirs |-> made]
        ELSE [success |-> TRUE, path |-> target_path,
              fs |-> RemoveFile(renamed, zip_path), dirs |-> made]

\* ------------------------------------------------------------------
\* USGSTopoDownloader (lib/gpkg_utils.py)
\* ------------------------------------------------------------------

BASE_URL == "https://prd-tnm.s3.amazonaws.com/StagedProducts/TopoMapVector/"

GDB_FILE == "data/MapIndices_National_GDB.gdb"
RAW_DIR == "data/raw/gpkg"
EXTRACTED_DIR == "data/extracted/gpkg"

\* A field of a record: NULL, or text.
Null == [null |-> TRUE, text |-> <<>>]
Text(text) == [null |-> FALSE, text |-> text]

Feature(cell_name, state_alpha) == [CELL_NAME |-> cell_name, STATE_ALPHA |-> state_alpha]

\* _get_quad_info with a test that passes over a NULL state field only, not
\* an empty one.
_get_quad_info_only_null(cell_name, state_alpha_field) ==
    IF state_alpha_field.null
    THEN [kind |-> "None"]
    ELSE IF cell_name.null
    THEN [kind |-> "raised"]
    ELSE [kind |-> "info",
          quad_name |-> replace(strip(cell_name.text), " ", "_"),
          state_abbr |-> strip(first_token(state_alpha_field.text, ","))]

\* The result of _get_quad_info: None, the pair, or the AttributeError of
\* None.strip() when CELL_NAME is NULL.
_get_quad_info(cell_name, state_alpha_field) ==
    IF state_alpha_field.null \/ state_alpha_field.text = <<>>   \* not state_alpha_field
    THEN [kind |-> "None"]
    ELSE IF cell_name.null
    THEN [kind |-> "raised"]
    ELSE [kind |-> "info",
          quad_name |-> replace(strip(cell_name.text), " ", "_"),
          state_abbr |-> strip(first_token(state_alpha_field.text, ","))]

\* quad_key = f"{quad_name}_{state_abbr}"
quad_key(info) == Str(info.quad_name) \o "_" \o Str(info.state_abbr)

\* The name zip_filename and gpkg_filename share before their extension.
quad_stem(quad_name, state_abbr, format) ==
    "VECTOR_" \o Str(quad_name) \o "_" \o Str(state_abbr) \o "_7_5_Min_" \o Str(format)

quad_url(quad_name, state_abbr, format) ==
    BASE_URL \o Str(upper(state_abbr)) \o "/" \o Str(format) \o "/"
             \o quad_stem(quad_name, state_abbr, format) \o ".zip"

\* The result of _process_quad(quad_name, state_abbr) when the request goes as
\* `outcome` and the server holds `archive`: what it returns, what it called,
\* and the files it leaves.
_process_quad(quad_name, state_abbr, format, outcome, archive, files, directories) ==
    LET stem          == quad_stem(quad_name, state_abbr, format)
        zip_filepath  == Path(RAW_DIR, stem, ".zip")
        gpkg_filepath == Path(EXTRACTED_DIR, stem, ".gpkg")
        got           == download_file(zip_filepath, outcome, archive, files, directories)
        ext           == extract_zip_and_rename(zip_filepath, EXTRACTED_DIR,
                                                "." \o Str(lower(format)), got.fs, got.dirs)
        call          == [url |-> quad_url(quad_name, state_abbr, format), path |-> zip_filepath]
    IN  IF exists(files, gpkg_filepath)
        THEN [ok |-> TRUE, fetched |-> <<>>, extracted |-> FALSE, zip |-> zip_filepath,
              fs |-> files, dirs |-> directories]
        ELSE IF ~got.success
        THEN [ok |-> FALSE, fetched |-> <<call>>, extracted |-> FALSE, zip |-> zip_filepath,
              fs |-> IF exists(got.fs, zip_filepath) THEN RemoveFile(got.fs, zip_filepath)
                     ELSE got.fs,
              dirs |-> got.dirs]
        ELSE [ok |-> ext.success, fetched |-> <<call>>, extracted |-> TRUE, zip |-> zip_filepath,
              fs |-> ext.fs, dirs |-> ext.dirs]

demVars == <<bbox, tiles, tile_paths, dem_pc, dem_result, dem_op, dirs, fs,
             fetches, tools_run, last_call, prev_call>>

gpkgVars == <<index, download_format, gq_pc, processed_quads, features_found,
              downloads_successful, summary, quad_log>>

vars == <<demVars, gpkgVars>>

\* ------------------------------------------------------------------
\* The raster operations as steps
\* ------------------------------------------------------------------

\* Values of the variables of an operation that is not part of
\* a specification.
NoIndex == [state |-> "missing", records |-> <<>>]
NoBox == [xmin |-> 0, ymin |-> 0, xmax |-> 0, ymax |-> 0]

\* No raster operation has run: nothing on disk.
DemIdle ==
    /\ tiles = <<>>
    /\ tile_paths = <<>>
    /\ dem_pc = "idle"
    /\ dem_result = NoResult
    /\ dem_op = "none"
    /\ dirs = {}
    /\ fs = NoFiles
    /\ fetches = <<>>
    /\ tools_run = <<>>
    /\ last_call = NoCall
    /\ prev_call = NoCall

\* tiles_for_bbox(bbox), called on its own
CallTilesForBbox ==
    /\ dem_pc = "idle"
    /\ dem_op = "none"
    /\ tiles' = tiles_for_bbox(bbox)
    /\ dem_op' = "tiles_for_bbox"
    /\ UNCHANGED <<bbox, tile_paths, dem_pc, dem_result, dirs, fs, fetches,
                   tools_run, last_call, prev_call>>
    /\ UNCHANGED gpkgVars

\* download_tile(tile_key, cache_dir), called on its own
CallDownloadTile(tile_key, outcome) ==
    /\ dem_pc = "idle"
    /\ LET r == download_tile(tile_key, CacheDir, outcome, fs, dirs)
       IN  /\ fs' = r.fs
           /\ dirs' = r.dirs
           /\ fetches' = FetchesOf(tile_key, r)
           /\ last_call' = CallRecord(tile_key, r)
           /\ prev_call' = last_call
           /\ dem_result' = ResultOfTile(r)
    /\ dem_op' = "download_tile"
    /\ tools_run' = <<>>
    /\ UNCHANGED <<bbox, tiles, tile_paths, dem_pc>>
    /\ UNCHANGED gpkgVars

\* merge_and_clip(tile_paths, bbox, out_dir), called on its own with the
\* cache paths of the first n tiles of the box
CallMergeAndClip(n, build, warp) ==
    /\ dem_pc = "idle"
    /\ LET keys  == tiles_for_bbox(bbox)
           given == PathsOf(keys, n)
           r     == merge_and_clip(given, bbox, OutDir, build, warp, fs, dirs)
       IN  /\ n <= Len(keys)
           /\ fs' = r.fs
           /\ dirs' = r.dirs
           /\ tools_run' = r.tools
           /\ dem_result' = ResultOfMerge(r)
           /\ tile_paths' = given
    /\ dem_op' = "merge_and_clip"
    /\ fetches' = <<>>
    /\ UNCHANGED <<bbox, tiles, dem_pc, last_call, prev_call>>
    /\ UNCHANGED gpkgVars

\* fetch_and_clip_dem, lines 155-162: enumerate the tiles
StartJob ==
    /\ dem_pc = "idle"
    /\ dem_op' = "fetch_and_clip_dem"
    /\ tiles' = tiles_for_bbox(bbox)
    /\ tile_paths' = <<>>
    /\ fetches' = <<>>
    /\ tools_run' = <<>>
    /\ IF tiles' = <<>>
       THEN dem_pc' = "idle" /\ dem_result' = ReturnedNone
       ELSE dem_pc' = "download" /\ dem_result' = NoResult
    /\ UNCHANGED <<bbox, dirs, fs, last_call, prev_call>>
    /\ UNCHANGED gpkgVars

\* The download loop with the failure caught inside the loop body: a failed
\* tile is left out and the loop goes on.
DownloadStep_skip_failed(outcome) ==
    /\ dem_pc = "download"
    /\ LET done     == Len(tile_paths) + Len(SelectSeq(fetches, LAMBDA f : ~exists(fs, f.path)))
           tile_key == tiles[IF done < Len(tiles) THEN done + 1 ELSE Len(tiles)]
           r        == download_tile(tile_key, CacheDir, outcome, fs, dirs)
       IN  /\ fs' = r.fs
           /\ dirs' = r.dirs
           /\ fetches' = fetches \o FetchesOf(tile_key, r)
           /\ last_call' = CallRecord(tile_key, r)
           /\ prev_call' = last_call
           /\ tile_paths' = IF r.result = "returned" THEN Append(tile_paths, r.path)
                            ELSE tile_paths
           /\ dem_pc' = IF done + 1 >= Len(tiles) THEN "merge" ELSE "download"
           /\ dem_result' = dem_result
    /\ UNCHANGED <<bbox, tiles, dem_op, tools_run>>
    /\ UNCHANGED gpkgVars

\* The download loop with each path put at the head of tile_paths.
DownloadStep_prepend(outcome) ==
    /\ dem_pc = "download"
    /\ LET tile_key == tiles[Len(tile_paths) + 1]
           r        == download_tile(tile_key, CacheDir, outcome, fs, dirs)
       IN  /\ fs' = r.fs
           /\ dirs' = r.dirs
           /\ fetches' = fetches \o FetchesOf(tile_key, r)
           /\ last_call' = CallRecord(tile_key, r)
           /\ prev_call' = last_call
           /\ IF r.result = "returned"
              THEN /\ tile_paths' = <<r.path>> \o tile_paths
                   /\ dem_pc' = IF Len(tile_paths') = Len(tiles) THEN "merge" ELSE "download"
                   /\ dem_result' = dem_result
              ELSE \* except RuntimeError: return None
                   /\ tile_paths' = tile_paths
                   /\ dem_pc' = "idle"
                   /\ dem_result' = ReturnedNone
    /\ UNCHANGED <<bbox, tiles, dem_op, tools_run>>
    /\ UNCHANGED gpkgVars

\* fetch_and_clip_dem, lines 163-168: one turn of the download loop
DownloadStep(outcome) ==
    /\ dem_pc = "download"
    /\ LET tile_key == tiles[Len(tile_paths) + 1]
           r        == download_tile(tile_key, CacheDir, outcome, fs, dirs)
       IN  /\ fs' = r.fs
           /\ dirs' = r.dirs
           /\ fetches' = fetches \o FetchesOf(tile_key, r)
           /\ last_call' = CallRecord(tile_key, r)
           /\ prev_call' = last_call
           /\ IF r.result = "returned"
              THEN /\ tile_paths' = Append(tile_paths, r.path)
                   /\ dem_pc' = IF Len(tile_paths') = Len(tiles) THEN "merge" ELSE "download"
                   /\ dem_result' = dem_result
              ELSE \* except RuntimeError: return None
                   /\ tile_paths' = tile_paths
                   /\ dem_pc' = "idle"
                   /\ dem_result' = ReturnedNone
    /\ UNCHANGED <<bbox, tiles, dem_op, tools_run>>
    /\ UNCHANGED gpkgVars

\* fetch_and_clip_dem, lines 170-172: return merge_and_clip(...)
MergeStep(build, warp) ==
    /\ dem_pc = "merge"
    /\ LET r == merge_and_clip(tile_paths, bbox, OutDir, build, warp, fs, dirs)
       IN  /\ fs' = r.fs
           /\ dirs' = r.dirs
           /\ tools_run' = r.tools
           /\ dem_result' = ResultOfMerge(r)
    /\ dem_pc' = "idle"
    /\ UNCHANGED <<bbox, tiles, tile_paths, dem_op, fetches, last_call, prev_call>>
    /\ UNCHANGED gpkgVars

\* ------------------------------------------------------------------
\* download_by_bbox as steps
\* ------------------------------------------------------------------

NoSummary == [status |-> "none"]
Failed(message) == [status |-> "FAILED", message |-> message]
CriticalError == [status |-> "CRITICAL_ERROR"]

\* What the index at gdb_path is: no file, a file the driver cannot open, a
\* geodatabase without the layer, or one whose layer gives `found` for the box.
Index(state, found) == [state |-> state, records |-> found]

\* One entry of quad_log: a turn that did not reach _process_quad, and one
\* that called it for `key` and got r.
Turn(kind, key) ==
    [kind |-> kind, key |-> key, ok |-> FALSE, fetched |-> FALSE, extracted |-> FALSE,
     zip |-> Path("", "", "")]
Processed(key, r) ==
    [kind |-> "processed", key |-> key, ok |-> r.ok, fetched |-> r.fetched # <<>>,
     extracted |-> r.extracted, zip |-> r.zip]

\* No download_by_bbox has run; __init__ made the two data directories.
GpkgIdle ==
    /\ gq_pc = "idle"
    /\ processed_quads = {}
    /\ features_found = 0
    /\ downloads_successful = 0
    /\ summary = NoSummary
    /\ quad_log = <<>>

\* download_by_bbox, lines 121-152: open the index, set the filter
StartRun(open_raises) ==
    /\ gq_pc \in {"idle", "done"}
    /\ processed_quads' = {}
    /\ features_found' = 0
    /\ downloads_successful' = 0
    /\ quad_log' = <<>>
    /\ fetches' = <<>>
    /\ CASE index.state = "missing" ->
              gq_pc' = "done" /\ summary' = Failed("GDB file not found")
         [] index.state = "unopenable" ->
              /\ gq_pc' = "done"
              /\ summary' = IF open_raises THEN CriticalError ELSE Failed("Could not open")
         [] index.state = "no_layer" ->
              gq_pc' = "done" /\ summary' = Failed("Could not find layer")
         [] OTHER ->
              gq_pc' = "loop" /\ summary' = NoSummary
    /\ UNCHANGED <<index, download_format, dirs, fs>>
    /\ UNCHANGED <<bbox, tiles, tile_paths, dem_pc, dem_result, dem_op, tools_run,
                   last_call, prev_call>>

\* download_by_bbox, lines 153-154: the for loop takes the next feature of
\* the filtered layer and counts it
NextFeature ==
    /\ gq_pc = "loop"
    /\ features_found < Len(index.records)
    /\ features_found' = features_found + 1

\* The loop with _process_quad raising on a failure instead of returning False.
FeatureStep_failure_raises(outcome, archive) ==
    /\ NextFeature
    /\ LET feature   == index.records[features_found + 1]
           quad_info == _get_quad_info(feature.CELL_NAME, feature.STATE_ALPHA)
           r == _process_quad(quad_info.quad_name, quad_info.state_abbr,
                              download_format, outcome, archive, fs, dirs)
       IN  CASE quad_info.kind = "raised" ->
                  /\ gq_pc' = "done"
                  /\ summary' = CriticalError
                  /\ quad_log' = Append(quad_log, Turn("raised", ""))
                  /\ UNCHANGED <<processed_quads, downloads_successful, fs, dirs, fetches>>
             [] quad_info.kind = "None" ->
                  /\ quad_log' = Append(quad_log, Turn("skipped", ""))
                  /\ UNCHANGED <<gq_pc, summary, processed_quads, downloads_successful,
                                 fs, dirs, fetches>>
             [] quad_info.kind = "info" /\ quad_key(quad_info) \in processed_quads ->
                  /\ quad_log' = Append(quad_log, Turn("duplicate", quad_key(quad_info)))
                  /\ UNCHANGED <<gq_pc, summary, processed_quads, downloads_successful,
                                 fs, dirs, fetches>>
             [] OTHER ->
                  /\ processed_quads' = processed_quads \cup {quad_key(quad_info)}
                  /\ downloads_successful' = downloads_successful + (IF r.ok THEN 1 ELSE 0)
                  /\ fs' = r.fs
                  /\ dirs' = r.dirs
                  /\ fetches' = fetches \o r.fetched
                  /\ quad_log' = Append(quad_log, Processed(quad_key(quad_info), r))
                  /\ gq_pc' = IF r.ok THEN gq_pc ELSE "done"
                  /\ summary' = IF r.ok THEN summary ELSE CriticalError
    /\ UNCHANGED <<index, download_format>>
    /\ UNCHANGED <<bbox, tiles, tile_paths, dem_pc, dem_result, dem_op, tools_run,
                   last_call, prev_call>>

\* The loop with the test of processed_quads left out.
FeatureStep_no_dedup(outcome, archive) ==
    /\ NextFeature
    /\ LET feature   == index.records[features_found + 1]
           quad_info == _get_quad_info(feature.CELL_NAME, feature.STATE_ALPHA)
           r == _process_quad(quad_info.quad_name, quad_info.state_abbr,
                              download_format, outcome, archive, fs, dirs)
       IN  CASE quad_info.kind = "raised" ->
                  /\ gq_pc' = "done"
                  /\ summary' = CriticalError
                  /\ quad_log' = Append(quad_log, Turn("raised", ""))
                  /\ UNCHANGED <<processed_quads, downloads_successful, fs, dirs, fetches>>
             [] quad_info.kind = "None" ->
                  /\ quad_log' = Append(quad_log, Turn("skipped", ""))
                  /\ UNCHANGED <<gq_pc, summary, processed_quads, downloads_successful,
                                 fs, dirs, fetches>>
             [] OTHER ->
                  /\ processed_quads' = processed_quads \cup {quad_key(quad_info)}
                  /\ downloads_successful' = downloads_successful + (IF r.ok THEN 1 ELSE 0)
                  /\ fs' = r.fs
                  /\ dirs' = r.dirs
                  /\ fetches' = fetches \o r.fetched
                  /\ quad_log' = Append(quad_log, Processed(quad_key(quad_info), r))
                  /\ UNCHANGED <<gq_pc, summary>>
    /\ UNCHANGED <<index, download_format>>
    /\ UNCHANGED <<bbox, tiles, tile_paths, dem_pc, dem_result, dem_op, tools_run,
                   last_call, prev_call>>

\* The loop with the key added to processed_quads only after _process_quad
\* returned True.
FeatureStep_add_on_success(outcome, archive) ==
    /\ NextFeature
    /\ LET feature   == index.records[features_found + 1]
           quad_info == _get_quad_info(feature.CELL_NAME, feature.STATE_ALPHA)
           r == _process_quad(quad_info.quad_name, quad_info.state_abbr,
                              download_format, outcome, archive, fs, dirs)
       IN  CASE quad_info.kind = "raised" ->
                  \* except Exception: return CRITICAL_ERROR
                  /\ gq_pc' = "done"
                  /\ summary' = CriticalError
                  /\ quad_log' = Append(quad_log, Turn("raised", ""))
                  /\ UNCHANGED <<processed_quads, downloads_successful, fs, dirs, fetches>>
             [] quad_info.kind = "None" ->
                  /\ quad_log' = Append(quad_log, Turn("skipped", ""))
                  /\ UNCHANGED <<gq_pc, summary, processed_quads, downloads_successful,
                                 fs, dirs, fetches>>
             [] quad_info.kind = "info" /\ quad_key(quad_info) \in processed_quads ->
                  \* continue
                  /\ quad_log' = Append(quad_log, Turn("duplicate", quad_key(quad_info)))
                  /\ UNCHANGED <<gq_pc, summary, processed_quads, downloads_successful,
                                 fs, dirs, fetches>>
             [] OTHER ->
                  /\ processed_quads' = IF r.ok THEN processed_quads \cup {quad_key(quad_info)}
                                       ELSE processed_quads
                  /\ downloads_successful' = downloads_successful + (IF r.ok THEN 1 ELSE 0)
                  /\ fs' = r.fs
                  /\ dirs' = r.dirs
                  /\ fetches' = fetches \o r.fetched
                  /\ quad_log' = Append(quad_log, Processed(quad_key(quad_info), r))
                  /\ UNCHANGED <<gq_pc, summary>>
    /\ UNCHANGED <<index, download_format>>
    /\ UNCHANGED <<bbox, tiles, tile_paths, dem_pc, dem_result, dem_op, tools_run,
                   last_call, prev_call>>

\* download_by_bbox, lines 153-171: one turn of the loop over the layer
FeatureStep(outcome, archive) ==
    /\ NextFeature
    /\ LET feature   == index.records[features_found + 1]
           quad_info == _get_quad_info(feature.CELL_NAME, feature.STATE_ALPHA)
           r == _process_quad(quad_info.quad_name, quad_info.state_abbr,
                              download_format, outcome, archive, fs, dirs)
       IN  CASE quad_info.kind = "raised" ->
                  \* except Exception: return CRITICAL_ERROR
                  /\ gq_pc' = "done"
                  /\ summary' = CriticalError
                  /\ quad_log' = Append(quad_log, Turn("raised", ""))
                  /\ UNCHANGED <<processed_quads, downloads_successful, fs, dirs, fetches>>
             [] quad_info.kind = "None" ->
                  /\ quad_log' = Append(quad_log, Turn("skipped", ""))
                  /\ UNCHANGED <<gq_pc, summary, processed_quads, downloads_successful,
                                 fs, dirs, fetches>>
             [] quad_info.kind = "info" /\ quad_key(quad_info) \in processed_quads ->
                  \* continue
                  /\ quad_log' = Append(quad_log, Turn("duplicate", quad_key(quad_info)))
                  /\ UNCHANGED <<gq_pc, summary, processed_quads, downloads_successful,
                                 fs, dirs, fetches>>
             [] OTHER ->
                  /\ processed_quads' = processed_quads \cup {quad_key(quad_info)}
                  /\ downloads_successful' = downloads_successful + (IF r.ok THEN 1 ELSE 0)
                  /\ fs' = r.fs
                  /\ dirs' = r.dirs
                  /\ fetches' = fetches \o r.fetched
                  /\ quad_log' = Append(quad_log, Processed(quad_key(quad_info), r))
                  /\ UNCHANGED <<gq_pc, summary>>
    /\ UNCHANGED <<index, download_format>>
    /\ UNCHANGED <<bbox, tiles, tile_paths, dem_pc, dem_result, dem_op, tools_run,
                   last_call, prev_call>>

\* download_by_bbox, lines 173-184: the layer is exhausted, return the summary
Summarize ==
    /\ gq_pc = "loop"
    /\ features_found = Len(index.records)
    /\ gq_pc' = "done"
    /\ summary' = [status |-> "SUCCESS",
                   features_found |-> features_found,
                   unique_quads_identified |-> Cardinality(processed_quads),
                   downloads_successful |-> downloads_successful]
    /\ UNCHANGED <<index, download_format, processed_quads, features_found,
                   downloads_successful, quad_log, dirs, fs, fetches>>
    /\ UNCHANGED <<bbox, tiles, tile_paths, dem_pc, dem_result, dem_op, tools_run,
                   last_call, prev_call>>

\* ------------------------------------------------------------------
\* Specifications
\* ------------------------------------------------------------------

\* Tile enumeration over boxes around every origin.
InitTiles ==
    /\ index = NoIndex
    /\ download_format = <<>>
    /\ gq_pc = "idle"
    /\ processed_quads = {}
    /\ features_found = 0
    /\ downloads_successful = 0
    /\ summary = NoSummary
    /\ quad_log = <<>>
    /\ bbox \in Boxes(LonOrigins, LatOrigins)
    /\ DemIdle

NextTiles == CallTilesForBbox

SpecTiles == InitTiles /\ [][NextTiles]_vars

\* download_tile called again and again with the keys of one box.
InitCache ==
    /\ index = NoIndex
    /\ download_format = <<>>
    /\ gq_pc = "idle"
    /\ processed_quads = {}
    /\ features_found = 0
    /\ downloads_successful = 0
    /\ summary = NoSummary
    /\ quad_log = <<>>
    /\ bbox \in DemBoxes
    /\ DemIdle

NextCache ==
    \E k \in 1..Len(tiles_for_bbox(bbox)), outcome \in FetchOutcomes :
        CallDownloadTile(tiles_for_bbox(bbox)[k], outcome)

SpecCache == InitCache /\ [][NextCache]_vars

\* merge_and_clip called again and again over one box.
InitMerge ==
    /\ index = NoIndex
    /\ download_format = <<>>
    /\ gq_pc = "idle"
    /\ processed_quads = {}
    /\ features_found = 0
    /\ downloads_successful = 0
    /\ summary = NoSummary
    /\ quad_log = <<>>
    /\ bbox \in DemBoxes
    /\ DemIdle

NextMerge ==
    \E n \in 0..Len(tiles_for_bbox(bbox)), build \in ToolOutcomes, warp \in ToolOutcomes :
        CallMergeAndClip(n, build, warp)

SpecMerge == InitMerge /\ [][NextMerge]_vars

\* fetch_and_clip_dem run again and again over one box.
InitDem ==
    /\ index = NoIndex
    /\ download_format = <<>>
    /\ gq_pc = "idle"
    /\ processed_quads = {}
    /\ features_found = 0
    /\ downloads_successful = 0
    /\ summary = NoSummary
    /\ quad_log = <<>>
    /\ bbox \in DemBoxes
    /\ DemIdle

NextDem ==
    \/ StartJob
    \/ \E outcome \in FetchOutcomes : DownloadStep(outcome)
    \/ \E build \in ToolOutcomes, warp \in ToolOutcomes : MergeStep(build, warp)

SpecDem == InitDem /\ [][NextDem]_vars

\* The vector job, run again and again over one index.
GPKG == <<"G", "P", "K", "G">>
ShapeFile == <<"S", "h", "a", "p", "e", "F", "i", "l", "e">>
Formats == {GPKG, ShapeFile}

FooBar == <<"F", "o", "o", " ", "B", "a", "r">>
Foo_Bar == <<"F", "o", "o", "_", "B", "a", "r">>

\* The records the layer may hold: the two spellings of one cell, with state
\* fields that name one state in three ways, no state (empty or missing),
\* and a record without a cell name.  A layer holds each of them at most
\* once.
Features ==
    { Feature(Text(FooBar), Text(<<"N", "E", ",", "S", "D">>)),
      Feature(Text(Foo_Bar), Text(<<"n", "e">>)),
      Feature(Text(Foo_Bar), Text(<<"N", "E">>)),
      Feature(Text(FooBar), Text(<<>>)),
      Feature(Text(Foo_Bar), Null),
      Feature(Null, Text(<<"N", "E">>)) }

RECURSIVE FeatureLists(_)
FeatureLists(n) ==
    IF n = 0 THEN {<<>>}
    ELSE FeatureLists(n - 1)
            \cup UNION { { Append(l, f) : f \in Features \ { l[i] : i \in 1..Len(l) } } :
                          l \in { x \in FeatureLists(n - 1) : Len(x) = n - 1 } }

Indexes ==
    { Index(st, <<>>) : st \in {"missing", "unopenable", "no_layer"} }
        \cup { Index("ok", l) : l \in FeatureLists(MaxRecords) }

\* The archives the server may hold for a quadrangle.
Archives(format) ==
    LET ext == "." \o Str(lower(format))
    IN  { CorruptZip,
          Zip(<<Member(<<>>, "README", ".txt", TRUE)>>),
          Zip(<<Member(<<>>, "README", ".txt", TRUE),
                Member(<<"sub", "dir">>, "file", ext, TRUE)>>),
          Zip(<<Member(<<>>, "file", ext, FALSE)>>) }

\* What one request meets: a failure of the transfer, or a body that arrives.
Response(outcome, body) == [outcome |-> outcome, body |-> body]
Responses(format) ==
    { Response(o, CorruptZip) : o \in FetchOutcomes \ {"ok"} }
        \cup { Response("ok", a) : a \in Archives(format) }

InitGpkg ==
    /\ bbox = NoBox
    /\ tiles = <<>>
    /\ tile_paths = <<>>
    /\ dem_pc = "idle"
    /\ dem_result = NoResult
    /\ dem_op = "none"
    /\ tools_run = <<>>
    /\ last_call = NoCall
    /\ prev_call = NoCall
    /\ fetches = <<>>
    /\ index \in Indexes
    /\ download_format \in Formats
    /\ dirs = {RAW_DIR, EXTRACTED_DIR}
    /\ fs = NoFiles
    /\ GpkgIdle

NextGpkg ==
    \/ \E open_raises \in BOOLEAN : StartRun(open_raises)
    \/ \E served \in Responses(download_format) :
           FeatureStep(served.outcome, served.body)
    \/ Summarize

SpecGpkg == InitGpkg /\ [][NextGpkg]_vars

\* The run is one thread and every step of it returns (each request has a
\* timeout): while features are left the loop takes the next one, and once
\* the layer is exhausted the summary is returned.
FairSpecGpkg ==
    SpecGpkg /\ WF_features_found(NextFeature) /\ WF_vars(Summarize)

\* ------------------------------------------------------------------
\* Properties of the cached download
\* ------------------------------------------------------------------

FetchCount(call) == IF call.fetched THEN 1 ELSE 0

SameKeyTwice == prev_call.result # "none" /\ last_call.key = prev_call.key

\* C1, as stated: two download_tile calls in a row with the same key call
\* download_file at most once in total whatever the first call did, and the
\* second call never calls it.
C1_OneFetchWhateverTheFirstCallDid ==
    SameKeyTwice =>
        /\ FetchCount(prev_call) + FetchCount(last_call) <= 1
        /\ ~last_call.fetched

\* C1, amended: when the first of two download_tile calls in a row with the
\* same key returned a path, the second returns the identical path without
\* calling download_file, so the two calls fetch at most once in total.
C1_SecondCallAfterSuccessIsCacheHit ==
    (SameKeyTwice /\ prev_call.result = "returned") =>
        /\ last_call.result = "returned"
        /\ last_call.path = prev_call.path
        /\ ~last_call.fetched
        /\ fetches = <<>>
        /\ FetchCount(prev_call) + FetchCount(last_call) <= 1

\* The first call fetched the tile, the second call asked for the same key.
C1_Witness ==
    /\ SameKeyTwice
    /\ prev_call.result = "returned"
    /\ prev_call.fetched
    /\ dem_op = "download_tile"

\* C2: after a download_tile call that raised, no file exists at
\* cacheDir/<key>.tif, and a cache hit is never on what a broken transfer left.
C2_NoFileAfterFailedDownload ==
    /\ last_call.result = "raised" => ~exists(fs, last_call.path)
    /\ (last_call.result = "returned" /\ ~last_call.fetched) => fs[last_call.path] # Truncated

\* ------------------------------------------------------------------
\* Properties of the mosaic and clip
\* ------------------------------------------------------------------

\* C3: after every merge_and_clip call, returned or raised, _tmp_mosaic.vrt
\* does not exist in the output directory.
C3_NoMosaicLeftBehind ==
    dem_op = "merge_and_clip" => ~exists(fs, Path(OutDir, "_tmp_mosaic", ".vrt"))

\* ------------------------------------------------------------------
\* Properties of the raster job
\* ------------------------------------------------------------------

\* The job ended because download_tile raised.
JobStoppedByFailure ==
    /\ dem_op = "fetch_and_clip_dem"
    /\ dem_pc = "idle"
    /\ tiles # <<>>
    /\ last_call.result = "raised"

\* C4: when download_tile fails for a tile, fetch_and_clip_dem stops at that
\* tile: every earlier tile was materialized, no later tile is fetched,
\* merge_and_clip is not invoked and the job returns None.
C4_FirstTileFailureStopsJob ==
    /\ JobStoppedByFailure =>
           /\ dem_result = ReturnedNone
           /\ tools_run = <<>>
           /\ Len(tile_paths) < Len(tiles)
           /\ tile_paths = PathsOf(tiles, Len(tile_paths))
           /\ last_call.key = tiles[Len(tile_paths) + 1]
           /\ \A i \in 1..Len(fetches) :
                  \E j \in 1..(Len(tile_paths) + 1) : fetches[i].path = PathsOf(tiles, j)[j]
    /\ (dem_op = "fetch_and_clip_dem" /\ dem_pc = "idle" /\ dem_result.kind # "None")
           => /\ tools_run # <<>>
              /\ Len(tile_paths) = Len(tiles)

\* The first of several tiles failed: the job ended with nothing fetched
\* after it.
C4_Witness ==
    /\ JobStoppedByFailure
    /\ Len(tiles) >= 2
    /\ tile_paths = <<>>
    /\ dem_result = ReturnedNone

\* ------------------------------------------------------------------
\* Properties of the tile enumeration
\* ------------------------------------------------------------------

ValidBox(b) == b.xmin <= b.xmax /\ b.ymin <= b.ymax

Enumerated == dem_op = "tiles_for_bbox"

\* C5: for a box with xmin <= xmax and ymin <= ymax, tiles_for_bbox returns
\* (floor(xmax)-floor(xmin)+1) * (floor(ymax)-floor(ymin)+1) keys, pairwise
\* distinct, each the key of a cell (lat, lon) with lat in
\* floor(ymin)..floor(ymax) and lon in floor(xmin)..floor(xmax); never none.
C5_TileCountAndCells ==
    (Enumerated /\ ValidBox(bbox)) =>
        LET lats == floor(bbox.ymin)..floor(bbox.ymax)
            lons == floor(bbox.xmin)..floor(bbox.xmax)
        IN  /\ Len(tiles) = (floor(bbox.xmax) - floor(bbox.xmin) + 1)
                              * (floor(bbox.ymax) - floor(bbox.ymin) + 1)
            /\ Len(tiles) >= 1
            /\ \A i, j \in 1..Len(tiles) : i # j => tiles[i] # tiles[j]
            /\ \A i \in 1..Len(tiles) :
                   \E lat \in lats, lon \in lons : tiles[i] = tile_name(lat, lon)

\* A valid box with fractional corners west of Greenwich that spans several
\* rows and columns of tiles has been enumerated.
C5_Witness ==
    /\ Enumerated
    /\ ValidBox(bbox)
    /\ bbox.xmin < 0
    /\ bbox.xmin % Scale # 0
    /\ floor(bbox.xmax) > floor(bbox.xmin)
    /\ floor(bbox.ymax) > floor(bbox.ymin)
    /\ Len(tiles) >= 4

\* ------------------------------------------------------------------
\* Properties of the vector job
\* ------------------------------------------------------------------

\* The records the run has examined, and what _get_quad_info gives for each.
Examined == 1..Len(quad_log)

InfoOf(i) == _get_quad_info(index.records[i].CELL_NAME, index.records[i].STATE_ALPHA)

\* The turns of the run that called _process_quad.
ProcessedTurns == { i \in Examined : quad_log[i].kind = "processed" }

\* The QuadrangleKey of a record as the data model defines it: the cell name
\* with blanks replaced by underscores, and the first comma-separated token
\* of the state field, upper-cased.
QuadrangleKey(feature) ==
    <<replace(strip(feature.CELL_NAME.text), " ", "_"),
      upper(strip(first_token(feature.STATE_ALPHA.text, ",")))>>

HasState(feature) == ~feature.STATE_ALPHA.null /\ feature.STATE_ALPHA.text # <<>>

\* C6: records whose cell names differ only in blank versus underscore and
\* whose first state tokens are equal up to letter case share one entry of
\* the dedup set, and records of different states have one entry each: the
\* summary counts one unique quadrangle per QuadrangleKey.
C6_OneEntryPerQuadrangleKey ==
    summary.status = "SUCCESS" =>
        summary.unique_quads_identified =
            Cardinality({ QuadrangleKey(index.records[i]) :
                            i \in { j \in Examined : HasState(index.records[j]) } })

\* C7: _process_quad is invoked once for each distinct normalized key, at
\* the first record that carries it; a record whose key was already seen
\* calls nothing: no fetch, no extraction.
C7_EachKeyProcessedOnceAtFirstRecord ==
    /\ Len(quad_log) = features_found
    /\ \A i, j \in ProcessedTurns : i # j => quad_log[i].key # quad_log[j].key
    /\ \A i \in Examined :
           InfoOf(i).kind = "info" =>
               LET first == \A j \in 1..(i - 1) :
                                InfoOf(j).kind = "info" => quad_key(InfoOf(j)) # quad_key(InfoOf(i))
               IN  /\ quad_log[i].key = quad_key(InfoOf(i))
                   /\ first => quad_log[i].kind = "processed"
                   /\ ~first => /\ quad_log[i].kind = "duplicate"
                                /\ ~quad_log[i].fetched
                                /\ ~quad_log[i].extracted
    /\ Len(fetches) = Cardinality({ i \in ProcessedTurns : quad_log[i].fetched })
    /\ \A n \in 1..Len(fetches) : \E i \in ProcessedTurns : fetches[n].path = quad_log[i].zip

\* The second record carried the key of the first and was passed over.
C7_Witness ==
    /\ Len(quad_log) >= 2
    /\ quad_log[1].kind = "processed"
    /\ quad_log[1].fetched
    /\ quad_log[2].kind = "duplicate"
    /\ quad_log[2].key = quad_log[1].key
    /\ index.records[1] # index.records[2]

\* C8: a record whose state field is missing or empty is counted in
\* features_found, adds nothing to the dedup set, triggers no fetch, and
\* does not stop the loop.
C8_EmptyStateRecordSkipped ==
    /\ Len(quad_log) = features_found
    /\ processed_quads = { quad_log[i].key : i \in ProcessedTurns }
    /\ Len(fetches) <= Cardinality(ProcessedTurns)
    /\ \A i \in Examined :
           ~HasState(index.records[i]) =>
               /\ quad_log[i].kind = "skipped"
               /\ ~quad_log[i].fetched
               /\ ~quad_log[i].extracted
               /\ (i = Len(quad_log) /\ i < Len(index.records)) => gq_pc = "loop"
               /\ (i = Len(quad_log) /\ gq_pc = "done") => summary.status = "SUCCESS"

\* A record with an empty state field was passed over and the record after
\* it was processed.
C8_Witness ==
    /\ Len(quad_log) >= 2
    /\ index.records[1].STATE_ALPHA = Text(<<>>)
    /\ quad_log[1].kind = "skipped"
    /\ quad_log[2].kind = "processed"
    /\ quad_log[2].ok
    /\ features_found = 2
    /\ Cardinality(processed_quads) = 1

\* No record of the index makes the loop raise.
ReadableIndex ==
    \A i \in 1..Len(index.records) : InfoOf(i).kind # "raised"

\* C9: a quadrangle that fails (failed fetch, no matching member, corrupt
\* archive) does not end the run: the loop goes on to the next record, a
\* run over records that can be read ends with status SUCCESS, and the
\* summary counts the records seen, the unique keys (the failed ones too)
\* and the successful downloads (the failed ones not).
C9_FailedQuadrangleDoesNotAbortRun ==
    /\ [](\A i \in ProcessedTurns :
              (~quad_log[i].ok /\ i = Len(quad_log)) =>
                  /\ gq_pc = "loop" \/ summary.status = "SUCCESS"
                  /\ i < Len(index.records) => gq_pc = "loop")
    /\ [](summary.status = "SUCCESS" =>
              /\ gq_pc = "done"
              /\ Len(quad_log) = Len(index.records)
              /\ summary.features_found = Len(index.records)
              /\ summary.unique_quads_identified = Cardinality(ProcessedTurns)
              /\ summary.downloads_successful
                     = Cardinality({ i \in ProcessedTurns : quad_log[i].ok }))
    /\ (gq_pc = "loop" /\ ReadableIndex) ~> (gq_pc = "done" /\ summary.status = "SUCCESS")

\* A run whose first quadrangle failed after a fetch went on, processed the
\* second with success and reported both.
C9_Witness ==
    /\ summary.status = "SUCCESS"
    /\ Len(quad_log) = 2
    /\ quad_log[1].kind = "processed" /\ ~quad_log[1].ok /\ quad_log[1].fetched
    /\ quad_log[2].kind = "processed" /\ quad_log[2].ok
    /\ summary.features_found = 2
    /\ summary.unique_quads_identified = 2
    /\ summary.downloads_successful = 1

\* C10: after every extract_zip_and_rename call on an existing archive,
\* whatever it returned, the archive is gone from the raw directory.
C10_ArchiveDeletedAfterExtraction ==
    \A i \in ProcessedTurns :
        (quad_log[i].extracted /\ i = Len(quad_log)) => ~exists(fs, quad_log[i].zip)

\* ------------------------------------------------------------------
\* Properties of the mosaic and of the raster job
\* ------------------------------------------------------------------

\* C11: merge_and_clip called with an empty list of tile paths fails with
\* NoTilesAvailable without attempting the mosaic: the call creates no
\* directory, writes no file and runs neither gdalbuildvrt nor gdalwarp.
C11_EmptyTileListNotAttempted ==
    [][(dem_op' = "merge_and_clip" /\ tile_paths' = <<>>) =>
           /\ dem_result' = Raised("NoTilesAvailable")
           /\ dirs' = dirs
           /\ fs' = fs
           /\ tools_run' = <<>>]_vars

\* C12: fetch_and_clip_dem rejects a box with xmin > xmax or ymin > ymax
\* before any I/O: no directory is created, no fetch is issued, neither
\* gdalbuildvrt nor gdalwarp runs and no output path is returned.
C12_DegenerateBoxRejectedBeforeIO ==
    (bbox.xmin > bbox.xmax \/ bbox.ymin > bbox.ymax) =>
        /\ dirs = {}
        /\ fs = NoFiles
        /\ fetches = <<>>
        /\ tools_run = <<>>
        /\ dem_result.kind # "path"

\* ------------------------------------------------------------------
\* Properties of the tile keys
\* ------------------------------------------------------------------

\* The TileKey of the data model, written out digit by digit: hemisphere
\* letter and two digits of latitude, hemisphere letter and three digits of
\* longitude.
Pad2(n) == IF n < 10 THEN "0" \o ToString(n) ELSE ToString(n)
Pad3(n) ==
    IF n < 10 THEN "00" \o ToString(n)
    ELSE IF n < 100 THEN "0" \o ToString(n)
    ELSE ToString(n)
TileKey(lat, lon) ==
    (IF lat >= 0 THEN "n" \o Pad2(lat) ELSE "s" \o Pad2(0 - lat))
        \o (IF lon >= 0 THEN "e" \o Pad3(lon) ELSE "w" \o Pad3(0 - lon))

\* Cells whose key is the likeliest to be mistaken for the key of (lat, lon):
\* the same numbers in another hemisphere, the neighbours, latitude and
\* longitude exchanged, and a number with one more digit.
Rivals(lat, lon) ==
    { <<0 - lat, lon>>, <<lat, 0 - lon>>, <<0 - lat, 0 - lon>>,
      <<lat + 1, lon>>, <<lat - 1, lon>>, <<lat, lon + 1>>, <<lat, lon - 1>>,
      <<lon, lat>>, <<lat * 10, lon>>, <<lat, lon * 10>>, <<lat, lon + 100>> }
        \ {<<lat, lon>>}

\* The cells a valid box touches.
LatsOf(b) == floor(b.ymin)..floor(b.ymax)
LonsOf(b) == floor(b.xmin)..floor(b.xmax)

\* C13: tile_name(lat, lon) is the hemisphere letter and |lat| on two digits
\* followed by the hemisphere letter and |lon| on three digits, for every
\* integer cell; tile_name(42, -72) = "n42w072", tile_name(-3, 5) =
\* "s03e005"; two different cells never get the same key.
C13_TileNameFormatAndInjective ==
    /\ tile_name(42, 0 - 72) = "n42w072"
    /\ tile_name(0 - 3, 5) = "s03e005"
    /\ (Enumerated /\ ValidBox(bbox)) =>
           \A lat \in LatsOf(bbox), lon \in LonsOf(bbox) :
               /\ tile_name(lat, lon) = TileKey(lat, lon)
               /\ \E i \in 1..Len(tiles) : tiles[i] = TileKey(lat, lon)
               /\ \A c \in Rivals(lat, lon) : tile_name(c[1], c[2]) # tile_name(lat, lon)

\* A box south of the equator and west of Greenwich that touches two rows and
\* two columns has been enumerated: two-digit latitudes, three-digit
\* longitudes.
C13_Witness ==
    /\ Enumerated
    /\ ValidBox(bbox)
    /\ \E i \in 1..Len(tiles) : tiles[i] = "s11w104"
    /\ \E i \in 1..Len(tiles) : tiles[i] = "s10w103"

\* Where a key stands in the list.
PositionOf(key) == CHOOSE i \in 1..Len(tiles) : tiles[i] = key

\* C14: tiles_for_bbox lists the keys row by row, latitude outer and
\* longitude inner, both ascending: the key of (lat1, lon1) comes before the
\* key of (lat2, lon2) exactly when lat1 < lat2, or lat1 = lat2 and
\* lon1 < lon2.
C14_RowMajorOrder ==
    (Enumerated /\ ValidBox(bbox)) =>
        \A lat1 \in LatsOf(bbox), lat2 \in LatsOf(bbox),
           lon1 \in LonsOf(bbox), lon2 \in LonsOf(bbox) :
            LET key1 == tile_name(lat1, lon1)
                key2 == tile_name(lat2, lon2)
            IN  /\ \E i \in 1..Len(tiles) : tiles[i] = key1
                /\ \E i \in 1..Len(tiles) : tiles[i] = key2
                /\ (PositionOf(key1) < PositionOf(key2))
                       <=> (lat1 < lat2 \/ (lat1 = lat2 /\ lon1 < lon2))

\* Two rows of two columns each have been enumerated.
C14_Witness ==
    /\ Enumerated
    /\ tiles = <<"n42w104", "n42w103", "n43w104", "n43w103">>

\* ------------------------------------------------------------------
\* Properties of the output of merge_and_clip
\* ------------------------------------------------------------------

\* out_dir/DEM_<xmin>_<ymin>_<xmax>_<ymax>.tif
ExpectedOutput(b) ==
    Path(OutDir,
         "DEM_" \o FloatStr(b.xmin) \o "_" \o FloatStr(b.ymin)
                \o "_" \o FloatStr(b.xmax) \o "_" \o FloatStr(b.ymax),
         ".tif")

\* C15: the output path of merge_and_clip depends on the output directory
\* and the box only: DEM_, then xmin, ymin, xmax, ymax in that order with
\* underscores between them, then .tif, whatever the tile list and the files
\* already present; runs over one box write one and the same output file.
C15_OutputPathFromBoxOnly ==
    /\ (dem_op = "merge_and_clip" /\ dem_result.kind = "path") =>
           /\ dem_result.path = ExpectedOutput(bbox)
           /\ exists(fs, ExpectedOutput(bbox))
    /\ \A p \in DOMAIN fs :
           (p.dir = OutDir /\ p.ext = ".tif") => p = ExpectedOutput(bbox)

\* merge_and_clip returned for two tiles of a box with a fractional corner.
C15_Witness ==
    /\ dem_op = "merge_and_clip"
    /\ dem_result.kind = "path"
    /\ Len(tile_paths) = 2
    /\ bbox.xmin % Scale # 0
    /\ exists(fs, ExpectedOutput(bbox))

\* ------------------------------------------------------------------
\* Properties of the extraction and of the quadrangle cache
\* ------------------------------------------------------------------

\* The turns whose _process_quad fetched an archive and extracted it.
ExtractedTurns == { i \in ProcessedTurns : quad_log[i].extracted /\ quad_log[i].ok }

\* <destination>/<archive base name><extension> for the archive of turn i
TargetOf(i) ==
    Path(EXTRACTED_DIR, quad_log[i].zip.stem, "." \o Str(lower(download_format)))

\* C16: when extract_zip_and_rename succeeds on an archive whose first
\* matching member lies under sub/dir/, the extracted file is directly under
\* the destination directory, named <archive base name><extension>; the
\* destination holds the files named after quadrangles of the index and
\* nothing else, and no sub-directory is created.
C16_ExtractedFileFlatUnderDestination ==
    /\ \A i \in ExtractedTurns :
           /\ exists(fs, TargetOf(i))
           /\ fs[TargetOf(i)] = File("layers")
    /\ \A p \in DOMAIN fs :
           /\ p.dir \in {RAW_DIR, EXTRACTED_DIR}
           /\ p.dir = EXTRACTED_DIR =>
                  \E j \in 1..Len(index.records) :
                      /\ InfoOf(j).kind = "info"
                      /\ p = Path(EXTRACTED_DIR,
                                  quad_stem(InfoOf(j).quad_name, InfoOf(j).state_abbr,
                                            download_format),
                                  "." \o Str(lower(download_format)))
    /\ dirs = {RAW_DIR, EXTRACTED_DIR}

\* A quadrangle whose archive holds sub/dir/file.<ext> has been extracted.
C16_Witness ==
    /\ ExtractedTurns # {}
    /\ \E i \in ExtractedTurns :
           /\ exists(fs, TargetOf(i))
           /\ ~exists(fs, quad_log[i].zip)

\* C17: whenever a file exists at cacheDir/<key>.tif, download_tile returns
\* that path without calling download_file and leaves the cache as it is:
\* no file or directory created, rewritten or removed.  The existence of the
\* file decides alone, whatever the file holds.
C17_CacheHitOnExistingFile ==
    [][(dem_op' = "download_tile" /\ exists(fs, last_call'.path)) =>
           /\ last_call'.result = "returned"
           /\ ~last_call'.fetched
           /\ dem_result' = ReturnedPath(last_call'.path)
           /\ fetches' = <<>>
           /\ fs' = fs
           /\ dirs' = dirs]_vars

\* download_tile returned the path of a file left by a broken transfer.
C17_Witness ==
    /\ dem_op = "download_tile"
    /\ last_call.result = "returned"
    /\ ~last_call.fetched
    /\ exists(fs, last_call.path)
    /\ fs[last_call.path] = Truncated

\* ------------------------------------------------------------------
\* Properties of the end of a download_by_bbox run
\* ------------------------------------------------------------------

\* C18: if the index file does not exist, cannot be opened or lacks the
\* layer, download_by_bbox ends FAILED with a message, having examined no
\* record and issued no fetch and no extraction.
C18_IndexUnavailableFails ==
    (gq_pc = "done" /\ index.state # "ok") =>
        /\ summary.status = "FAILED"
        /\ "message" \in DOMAIN summary
        /\ features_found = 0
        /\ quad_log = <<>>
        /\ fetches = <<>>
        /\ fs = NoFiles

\* C19: for every download format, once _process_quad has fetched and
\* extracted a quadrangle with success, the file it tests as the cache entry
\* of that quadrangle (extracted directory, the name built from quad_name,
\* state_abbr and download_format) exists, so that the next _process_quad of
\* the quadrangle is a cache hit.
C19_CacheEntryExistsAfterSuccess ==
    \A i \in ExtractedTurns :
        exists(fs, Path(EXTRACTED_DIR, quad_log[i].zip.stem, ".gpkg"))

\* C20: every download_by_bbox run ends with status SUCCESS or FAILED and
\* with no other, whatever reading a record, a fetch or an extraction does.
\* Stated for the runs that opened the index and found the layer; C18 is
\* about the other runs.
C20_EndsWithSuccessOrFailed ==
    (gq_pc = "done" /\ index.state = "ok") => summary.status \in {"SUCCESS", "FAILED"}

\* ------------------------------------------------------------------
\* Properties of the counters of download_by_bbox
\* ------------------------------------------------------------------

\* The keys (quad_key as the loop builds it) of the first n records of the
\* layer that have a state.
KeysSeen(n) ==
    { quad_key(InfoOf(j)) : j \in { i \in 1..n : HasState(index.records[i]) } }

Ordered(successful, unique, found) == successful <= unique /\ unique <= found

\* C21: at every point of the download_by_bbox loop and in the final
\* summary, downloads_successful <= unique_quads_identified <=
\* features_found, and unique_quads_identified (the size of the dedup set)
\* is the number of distinct normalized keys among the records seen so far
\* that have a non-empty state field.
C21_CountersOrderedAndUniqueIsKeyCount ==
    /\ gq_pc = "loop" =>
           /\ Ordered(downloads_successful, Cardinality(processed_quads), features_found)
           /\ processed_quads = KeysSeen(features_found)
    /\ summary.status = "SUCCESS" =>
           /\ Ordered(summary.downloads_successful, summary.unique_quads_identified,
                      summary.features_found)
           /\ summary.unique_quads_identified
                  = Cardinality(KeysSeen(summary.features_found))
           /\ summary.features_found = Len(index.records)

\* In the loop, after a record without a state and a quadrangle whose
\* download failed: 0 < 1 < 2.
C21_Witness ==
    /\ gq_pc = "loop"
    /\ features_found = 2
    /\ Cardinality(processed_quads) = 1
    /\ downloads_successful = 0
    /\ \E i \in 1..2 : ~HasState(index.records[i])

\* ------------------------------------------------------------------
\* Properties of the order of the raster job
\* ------------------------------------------------------------------

\* The cache path of the i-th enumerated tile.
CachePathOf(i) == Path(CacheDir, tiles[i], ".tif")

\* tile_paths holds the cache paths of the first tiles, in the order of the
\* enumeration, and each of these files exists.
PathsFollowEnumeration ==
    /\ Len(tile_paths) <= Len(tiles)
    /\ \A i \in 1..Len(tile_paths) :
           /\ tile_paths[i] = CachePathOf(i)
           /\ exists(fs, tile_paths[i])

\* The fetches of the job were issued in the order of the enumeration, at
\* most one for a tile.
FetchesFollowEnumeration ==
    \A a \in 1..Len(fetches) :
        /\ \E i \in 1..Len(tiles) : fetches[a].path = CachePathOf(i)
        /\ \A b \in 1..Len(fetches) :
               a < b => \A i, j \in 1..Len(tiles) :
                            (fetches[a].path = CachePathOf(i) /\ fetches[b].path = CachePathOf(j))
                                => i < j

InJob == dem_op = "fetch_and_clip_dem"

\* C22: fetch_and_clip_dem materializes the tiles one at a time in the
\* order of the enumeration, and invokes merge_and_clip only after
\* download_tile has returned for every enumerated tile: when merge_and_clip
\* is invoked, tile_paths holds one path for each enumerated key, in the
\* same order, and every file of the list exists in the cache directory.
C22_MergeAfterAllTilesInOrder ==
    /\ [](InJob => PathsFollowEnumeration /\ FetchesFollowEnumeration)
    /\ [](InJob /\ dem_pc = "download" => Len(tile_paths) < Len(tiles) /\ tools_run = <<>>)
    /\ [](InJob /\ (dem_pc = "merge" \/ tools_run # <<>>) => Len(tile_paths) = Len(tiles))
    /\ [][dem_pc = "download" =>
              /\ last_call'.key = tiles[Len(tile_paths) + 1]
              /\ last_call'.path = CachePathOf(Len(tile_paths) + 1)
              /\ tile_paths' \in {tile_paths, Append(tile_paths, last_call'.path)}
              /\ Len(fetches') <= Len(fetches) + 1
              /\ tools_run' = <<>>]_vars

\* merge_and_clip is about to be invoked for two tiles, one taken from the
\* cache and one just fetched.
C22_Witness ==
    /\ InJob
    /\ dem_pc = "merge"
    /\ Len(tiles) = 2
    /\ tile_paths = <<CachePathOf(1), CachePathOf(2)>>
    /\ Len(fetches) = 1
    /\ fetches[1].path = CachePathOf(2)

====
